---- MODULE Spec2Model ----
(***************************************************************************)
(* Daily work log lifecycle of AmanaSys: the handlers of                   *)
(* controllers/log.controller.js over the DailyLog collection of           *)
(* models/dailyLog.model.js.                                               *)
(*                                                                         *)
(* Spec     : the lifecycle handlers, each run to completion before the    *)
(*            next starts; resp holds the answer of the last call.         *)
(* SpecRead : the read handlers between lifecycle calls.                   *)
(* SpecConc : the handlers that write the unique index (create, update,    *)
(*            delete) interleaved at their awaits, one step per storage    *)
(*            call; reqs holds the handlers that wait.                     *)
(*                                                                         *)
(* SpecUpload  : uploads through the two multer instances of               *)
(*               middleware/upload.middleware.js.                          *)
(* SpecContent : updates of the content fields of a log.                   *)
(* SpecRender  : exportLogToPdf of logs of every content, with relations   *)
(*               that resolve or not.                                      *)
(* SpecNotify  : createLog and approveLog with notification calls that     *)
(*               may fail.                                                 *)
(* SpecStatus  : updateLog, submitLog and approveLog of one log            *)
(*               interleaved at their awaits.                              *)
(*                                                                         *)
(* In every specification but SpecNotify the notification controller is    *)
(* called where the handlers call it and its call returns; the             *)
(* notification it is asked for is part of the answer (notif). A log       *)
(* holds the fields the handlers read or write but startTime and endTime.  *)
(***************************************************************************)
EXTENDS Integers, Sequences, FiniteSets, TLC

VARIABLES logs, nextId, resp, reqs

vars == <<logs, nextId, resp, reqs>>

(* ------------------------------ bounds -------------------------------- *)

\* Logs ever created (ObjectIds are never reused).
MaxLogs == 2
\* Requests in flight at once under SpecConc.
MaxReqs == 2
\* Photos, and documents, attached to one log.
MaxFiles == 1

(* ------------------------------ domains ------------------------------- *)

Leaders == {"L1", "L2"}
Managers == {"M1", "M2"}
Projects == {"P1", "P2"}
Times == {1, 2}

\* A field the request does not carry (JavaScript undefined).
Absent == "undefined"
\* An unset reference (approvedBy of a log that was never approved).
None == "null"
NoId == 0
InvalidDate == 0

\* req.userRole as the authentication collaborator sets it.
Role(u) == IF u \in Managers THEN "Manager" ELSE "Team Leader"

DateInputs == {"2024-03-01", "2024-03-01T00:00:00.000Z", "2024-03-02"}

\* new Date(s): the instant a date string denotes, as a day number; two
\* spellings of one instant give the same Date, undefined gives Invalid Date.
ParseDate(s) ==
  CASE s = "2024-03-01" -> 1
    [] s = "2024-03-01T00:00:00.000Z" -> 1
    [] s = "2024-03-02" -> 2
    [] OTHER -> InvalidDate

\* The schema's cast of a date path: a string goes through new Date as well.
CastDate(s) == ParseDate(s)

StatusEnum == {"draft", "submitted", "approved"}

\* req.body.<key>: a key the body does not carry reads as undefined.
Field(body, key) == IF key \in DOMAIN body THEN body[key] ELSE Absent

\* The trim setter of the schema's String paths.
Trim(s) ==
  CASE s = " rain " -> "rain"
    [] s = " " -> ""
    [] OTHER -> s

\* req.body.<key> for an array path: a body without the key gives the
\* path its default, the empty array.
ArrayField(body, key) == IF key \in DOMAIN body THEN body[key] ELSE <<>>

(* ------------------------------ storage ------------------------------- *)

Stored(db) == DOMAIN db

\* DailyLog.findById: the id when a document with it is stored, else null.
findById(db, id) == IF id \in Stored(db) THEN id ELSE NoId

Min(S) == CHOOSE x \in S : \A y \in S : x <= y

\* A pre-check that leaves the team leader out of its filter.
findOneAnyLeader(db, date, leader, project) ==
  LET hits == {i \in Stored(db) : db[i].date = date /\ db[i].project = project}
  IN IF hits = {} THEN NoId ELSE Min(hits)

\* DailyLog.findOne({date, teamLeader, project}): the first match, or null.
findOne(db, date, leader, project) ==
  LET hits == {i \in Stored(db) : /\ db[i].date = date
                                   /\ db[i].teamLeader = leader
                                   /\ db[i].project = project}
  IN IF hits = {} THEN NoId ELSE Min(hits)

\* A collection whose compound index is not unique.
UniqueIndexOff(db, id, doc) == TRUE

\* The unique compound index {date, teamLeader, project}: whether writing
\* doc under id keeps every key of the index unique.
UniqueIndexOk(db, id, doc) ==
  \A i \in Stored(db) \ {id} :
    ~ (/\ db[i].date = doc.date
       /\ db[i].teamLeader = doc.teamLeader
       /\ db[i].project = doc.project)

\* The schema's validators that a write runs: required paths and the enum.
SchemaValid(doc) ==
  /\ doc.date # InvalidDate
  /\ doc.project \in Projects
  /\ doc.workDescription \notin {Absent, ""}
  /\ doc.status \in StatusEnum

Put(db, id, doc) == [i \in Stored(db) \cup {id} |-> IF i = id THEN doc ELSE db[i]]

Drop(db, id) == [i \in Stored(db) \ {id} |-> db[i]]

(* ------------------------------ responses ----------------------------- *)

NoNotification == [type |-> "none", user |-> None, date |-> Absent,
                   project |-> Absent, log |-> NoId]

\* res.status(code).json(...): what one call answers. existing is the
\* existingLogId of the body, out the ids of the logs in the body, at the
\* clock reading the call took, notif the notification the call emitted,
\* headers the response headers set with res.setHeader, doc the sections
\* written to the document that is piped to the response.
Reply(op, u, id, code, msg) ==
  [op |-> op, user |-> u, id |-> id, code |-> code, msg |-> msg,
   existing |-> NoId, out |-> <<>>, at |-> 0, notif |-> NoNotification,
   headers |-> {}, doc |-> <<>>]

NoReply == Reply("none", None, NoId, 0, "")

(* ------------------------------ handlers ------------------------------ *)
\* A handler is the steps between its awaits. A step either answers the
\* request or leaves the handler waiting with what it read (seenId: the id
\* it holds, seenStatus: the status of the log it loaded). Each step maps the
\* collection to the collection it leaves and the next free id.

Answer(db, nid, r) ==
  [done |-> TRUE, logs |-> db, nextId |-> nid, resp |-> r,
   seenId |-> NoId, seenStatus |-> None]

Await(db, nid, id, status) ==
  [done |-> FALSE, logs |-> db, nextId |-> nid, resp |-> NoReply,
   seenId |-> id, seenStatus |-> status]

\* notificationController.createDuplicateWarningNotification(userId, date, project)
DuplicateWarning(u, date, project) ==
  [type |-> "duplicate_warning", user |-> u, date |-> date,
   project |-> project, log |-> NoId]

\* notificationController.createLogApprovedNotification(logId), addressed to
\* the log's team leader.
LogApproved(db, id) ==
  [type |-> "log_approved", user |-> db[id].teamLeader, date |-> Absent,
   project |-> Absent, log |-> id]

\* The document createLog builds from the request.
NewLog(u, body) ==
  [date |-> CastDate(body.date),
   teamLeader |-> u,
   project |-> body.project,
   employees |-> ArrayField(body, "employees"),
   workDescription |-> Trim(Field(body, "workDescription")),
   weather |-> Trim(Field(body, "weather")),
   issuesEncountered |-> Trim(Field(body, "issuesEncountered")),
   nextSteps |-> Trim(Field(body, "nextSteps")),
   materialsUsed |-> ArrayField(body, "materialsUsed"),
   photos |-> <<>>,
   documents |-> <<>>,
   status |-> IF body.status = Absent THEN "draft" ELSE body.status,
   approvedBy |-> None,
   approvedAt |-> 0]

\* What a rejected write throws: the validators run before the index.
WriteError(doc) ==
  IF SchemaValid(doc) THEN "E11000 duplicate key error" ELSE "Validation failed"

\* createLog up to its duplicate pre-check.
createCheck(db, nid, u, body, valid) ==
  IF ~valid
  THEN Answer(db, nid, Reply("create", u, NoId, 400, "validation errors"))
  ELSE IF ParseDate(body.date) = InvalidDate
  THEN Answer(db, nid, Reply("create", u, NoId, 500, "Cast to date failed"))
  ELSE LET existingLog == findOne(db, ParseDate(body.date), u, body.project)
       IN IF existingLog # NoId
          THEN Answer(db, nid,
                 [Reply("create", u, NoId, 400,
                        "A log already exists for this date and project")
                  EXCEPT !.existing = existingLog,
                         !.notif = DuplicateWarning(u, body.date, body.project)])
          ELSE Await(db, nid, NoId, None)

\* log.save() of the new document: the validators, then the insert under
\* the unique index; a rejection is caught and answered 500.
createSave(db, nid, u, body) ==
  LET doc == NewLog(u, body)
  IN IF ~(SchemaValid(doc) /\ UniqueIndexOk(db, nid, doc))
     THEN Answer(db, nid, Reply("create", u, NoId, 500, WriteError(doc)))
     ELSE Await(Put(db, nid, doc), nid + 1, nid, doc.status)

\* The populated findById of the saved log, and the answer.
createRespond(db, nid, u, id) ==
  Answer(db, nid, [Reply("create", u, id, 201, "created")
                   EXCEPT !.out = IF findById(db, id) # NoId THEN <<id>> ELSE <<>>])

createLog(db, nid, u, body, valid) ==
  LET checked == createCheck(db, nid, u, body, valid)
      saved == createSave(db, nid, u, body)
  IN IF checked.done THEN checked
     ELSE IF saved.done THEN saved
     ELSE createRespond(saved.logs, saved.nextId, u, saved.seenId)

\* An update that writes updateData with its undefined fields left in.
ApplyUpdateWhole(doc, body, readStatus) ==
  [doc EXCEPT
     !.date = IF body.date = Absent THEN @ ELSE CastDate(body.date),
     !.project = IF body.project = Absent THEN @ ELSE body.project,
     !.workDescription = IF Field(body, "workDescription") = Absent THEN @
                         ELSE Trim(body.workDescription),
     !.weather = Trim(Field(body, "weather")),
     !.status = IF body.status = Absent THEN readStatus ELSE body.status]

\* An update that takes the team leader from the request as well.
ApplyUpdateWithLeader(doc, body, readStatus) ==
  [doc EXCEPT
     !.date = IF body.date = Absent THEN @ ELSE CastDate(body.date),
     !.project = IF body.project = Absent THEN @ ELSE body.project,
     !.teamLeader = IF Field(body, "teamLeader") = Absent THEN @
                    ELSE body.teamLeader,
     !.status = IF body.status = Absent THEN readStatus ELSE body.status]

\* updateData after the undefined fields are removed, applied as $set:
\* status is always set, to the request's or else to the one read.
ApplyUpdate(doc, body, readStatus) ==
  [doc EXCEPT
     !.date = IF body.date = Absent THEN @ ELSE CastDate(body.date),
     !.project = IF body.project = Absent THEN @ ELSE body.project,
     !.employees = IF "employees" \in DOMAIN body THEN body.employees ELSE @,
     !.workDescription = IF Field(body, "workDescription") = Absent THEN @
                         ELSE Trim(body.workDescription),
     !.weather = IF Field(body, "weather") = Absent THEN @
                 ELSE Trim(body.weather),
     !.issuesEncountered = IF Field(body, "issuesEncountered") = Absent THEN @
                           ELSE Trim(body.issuesEncountered),
     !.nextSteps = IF Field(body, "nextSteps") = Absent THEN @
                   ELSE Trim(body.nextSteps),
     !.materialsUsed = IF "materialsUsed" \in DOMAIN body
                       THEN body.materialsUsed ELSE @,
     !.status = IF body.status = Absent THEN readStatus ELSE body.status]

\* updateLog without its check of the status.
UpdateConflictNever(status) == FALSE

\* The status check of updateLog.
UpdateConflict(status) == status = "approved"

\* updateLog up to its findById and the checks on the log it loaded.
updateRead(db, nid, u, id, body, valid) ==
  IF ~valid
  THEN Answer(db, nid, Reply("update", u, id, 400, "validation errors"))
  ELSE IF findById(db, id) = NoId
  THEN Answer(db, nid, Reply("update", u, id, 404, "Log not found"))
  ELSE IF db[id].teamLeader # u
  THEN Answer(db, nid, Reply("update", u, id, 403,
                             "You are not authorized to update this log"))
  ELSE IF UpdateConflict(db[id].status)
  THEN Answer(db, nid, Reply("update", u, id, 400,
                             "Cannot update an approved log"))
  ELSE Await(db, nid, id, db[id].status)

\* DailyLog.findByIdAndUpdate(id, updateData, {new, runValidators}): null
\* for a log that is gone, else the $set under the validators and the index.
updateWrite(db, nid, u, id, body, readStatus) ==
  IF findById(db, id) = NoId
  THEN Answer(db, nid, Reply("update", u, id, 200, "updated"))
  ELSE LET doc == ApplyUpdate(db[id], body, readStatus)
       IN IF ~(SchemaValid(doc) /\ UniqueIndexOk(db, id, doc))
          THEN Answer(db, nid, Reply("update", u, id, 500, WriteError(doc)))
          ELSE Answer(Put(db, id, doc), nid,
                 [Reply("update", u, id, 200, "updated") EXCEPT !.out = <<id>>])

updateLog(db, nid, u, id, body, valid) ==
  LET read == updateRead(db, nid, u, id, body, valid)
  IN IF read.done THEN read
     ELSE updateWrite(db, nid, u, id, body, read.seenStatus)

\* `Log is already ${log.status}`
AlreadyMsg(status) ==
  CASE status = "submitted" -> "Log is already submitted"
    [] status = "approved" -> "Log is already approved"
    [] OTHER -> "Log is already draft"

\* submitLog letting every log that is not approved through.
CanSubmitNotApproved(status) == status # "approved"

\* The status check of submitLog: the log can be submitted.
CanSubmit(status) == status = "draft"

\* submitLog up to its findById and the checks on the log it loaded.
submitRead(db, nid, u, id) ==
  IF findById(db, id) = NoId
  THEN Answer(db, nid, Reply("submit", u, id, 404, "Log not found"))
  ELSE IF db[id].teamLeader # u
  THEN Answer(db, nid, Reply("submit", u, id, 403,
                             "You are not authorized to submit this log"))
  ELSE IF ~CanSubmit(db[id].status)
  THEN Answer(db, nid, Reply("submit", u, id, 400, AlreadyMsg(db[id].status)))
  ELSE Await(db, nid, id, db[id].status)

\* log.save() with status modified: a $set of status on the stored log; a
\* log that is gone makes save throw.
submitSave(db, nid, u, id) ==
  IF findById(db, id) = NoId
  THEN Answer(db, nid, Reply("submit", u, id, 500, "No document found"))
  ELSE Answer(Put(db, id, [db[id] EXCEPT !.status = "submitted"]), nid,
              Reply("submit", u, id, 200, "Log submitted successfully"))

submitLog(db, nid, u, id) ==
  LET read == submitRead(db, nid, u, id)
  IN IF read.done THEN read ELSE submitSave(db, nid, u, id)

\* approveLog forgetting the approval time.
ApprovedUnstamped(doc, u, now) ==
  [doc EXCEPT !.status = "approved", !.approvedBy = u]

\* The fields approveLog stamps on the log it read.
Approved(doc, u, now) ==
  [doc EXCEPT !.status = "approved", !.approvedBy = u, !.approvedAt = now]

\* approveLog up to its findById and the checks on the log it loaded.
approveRead(db, nid, u, id) ==
  IF findById(db, id) = NoId
  THEN Answer(db, nid, Reply("approve", u, id, 404, "Log not found"))
  ELSE IF db[id].status = "approved"
  THEN Answer(db, nid, Reply("approve", u, id, 400, "Log is already approved"))
  ELSE IF db[id].status # "submitted"
  THEN Answer(db, nid, Reply("approve", u, id, 400,
                             "Only submitted logs can be approved"))
  ELSE Await(db, nid, id, db[id].status)

\* log.save() with the three fields modified, then the notification and
\* the answer.
approveSave(db, nid, u, id, now) ==
  IF findById(db, id) = NoId
  THEN Answer(db, nid, Reply("approve", u, id, 500, "No document found"))
  ELSE Answer(Put(db, id, Approved(db[id], u, now)), nid,
              [Reply("approve", u, id, 200, "Log approved successfully")
               EXCEPT !.at = now, !.notif = LogApproved(db, id)])

approveLog(db, nid, u, id, now) ==
  LET read == approveRead(db, nid, u, id)
  IN IF read.done THEN read ELSE approveSave(db, nid, u, id, now)

\* deleteLog refusing an approved log to a manager too.
DeleteConflictForAll(role, status) == status = "approved"

\* The two checks of deleteLog.
DeleteForbidden(role, owner, u) == role # "Manager" /\ owner # u
DeleteConflict(role, status) == status = "approved" /\ role # "Manager"

\* deleteLog up to its findById and the checks on the log it loaded.
deleteRead(db, nid, u, id) ==
  IF findById(db, id) = NoId
  THEN Answer(db, nid, Reply("delete", u, id, 404, "Log not found"))
  ELSE IF DeleteForbidden(Role(u), db[id].teamLeader, u)
  THEN Answer(db, nid, Reply("delete", u, id, 403,
                             "You are not authorized to delete this log"))
  ELSE IF DeleteConflict(Role(u), db[id].status)
  THEN Answer(db, nid, Reply("delete", u, id, 400,
                             "Cannot delete an approved log"))
  ELSE Await(db, nid, id, db[id].status)

\* DailyLog.findByIdAndDelete(id), and the answer whatever it found.
deleteWrite(db, nid, u, id) ==
  Answer(IF findById(db, id) = NoId THEN db ELSE Drop(db, id), nid,
         Reply("delete", u, id, 200, "Log deleted successfully"))

deleteLog(db, nid, u, id) ==
  LET read == deleteRead(db, nid, u, id)
  IN IF read.done THEN read ELSE deleteWrite(db, nid, u, id)

(* ------------------------------ reads --------------------------------- *)

\* The visibility check of getLogById and exportLogToPdf.
ViewForbidden(role, owner, u) == role # "Manager" /\ owner # u

getLogById(db, nid, u, id) ==
  IF findById(db, id) = NoId
  THEN Answer(db, nid, Reply("get", u, id, 404, "Log not found"))
  ELSE IF ViewForbidden(Role(u), db[id].teamLeader, u)
  THEN Answer(db, nid, Reply("get", u, id, 403,
                              "You are not authorized to view this log"))
  ELSE Answer(db, nid, [Reply("get", u, id, 200, "log") EXCEPT !.out = <<id>>])

\* The relations of a log that populate resolves; one it does not resolve
\* (its document is gone) is null in the populated log.
Relations == {"teamLeader", "project", "approvedBy"}

\* if (x): the truthiness of an optional String field.
Truthy(x) == x \notin {Absent, None, ""}

\* moment(d).format('MMMM D, YYYY') of a stored date.
FormatDate(d) ==
  CASE d = 1 -> "March 1, 2024"
    [] d = 2 -> "March 2, 2024"
    [] OTHER -> "Invalid date"

\* moment(t).format('MMMM D, YYYY h:mm A') of a clock reading.
FormatTime(t) ==
  CASE t = 1 -> "March 3, 2024 9:00 AM"
    [] t = 2 -> "March 4, 2024 4:30 PM"
    [] OTHER -> "Invalid date"

\* log.status.charAt(0).toUpperCase() + log.status.slice(1)
Capitalize(status) ==
  CASE status = "draft" -> "Draft"
    [] status = "submitted" -> "Submitted"
    [] status = "approved" -> "Approved"
    [] OTHER -> status

\* quantity.toString()
NumberText(n) ==
  CASE n = 0 -> "0"
    [] n = 2 -> "2"
    [] OTHER -> "NaN"

Section(name, lines) == [name |-> name, lines |-> lines]

\* if (log.status === 'approved' && log.approvedBy): the two approval lines.
ApprovalLines(log, dir) ==
  IF log.status = "approved" /\ log.approvedBy # None /\ "approvedBy" \in dir
  THEN << <<"Approved By", log.approvedBy>>,
          <<"Approved On", FormatTime(log.approvedAt)>> >>
  ELSE <<>>

\* The lines of the header block, up to the first relation that is null:
\* reading a property of null throws.
HeaderLines(log, dir) ==
  << <<"Date", FormatDate(log.date)>> >>
  \o (IF "project" \notin dir THEN <<>>
      ELSE << <<"Project", log.project>>, <<"Location", log.project>> >>
           \o (IF "teamLeader" \notin dir THEN <<>>
               ELSE << <<"Team Leader", log.teamLeader>>,
                       <<"Work Hours", "h:mm A - h:mm A">>,
                       <<"Status", Capitalize(log.status)>> >>
                    \o ApprovalLines(log, dir)))

\* A report without the line for a log with no employees.
EmployeeLinesBare(log) ==
  [k \in DOMAIN log.employees |-> <<"-", log.employees[k]>>]

EmployeeLines(log) ==
  IF Len(log.employees) = 0
  THEN << <<"No employees recorded for this log">> >>
  ELSE [k \in DOMAIN log.employees |-> <<"-", log.employees[k]>>]

MaterialLines(log) ==
  << <<"Material", "Quantity", "Unit", "Notes">> >>
  \o [k \in DOMAIN log.materialsUsed |->
        LET material == log.materialsUsed[k]
        IN <<material.name, NumberText(material.quantity), material.unit,
             IF Truthy(material.notes) THEN material.notes ELSE "-">>]

\* The sections after the header, in the order they are written.
BodySections(log) ==
  <<Section("employees", EmployeeLines(log)),
    Section("workDescription", << <<log.workDescription>> >>)>>
  \o (IF Truthy(log.weather)
      THEN <<Section("weather", << <<log.weather>> >>)>> ELSE <<>>)
  \o (IF Truthy(log.issuesEncountered)
      THEN <<Section("issuesEncountered", << <<log.issuesEncountered>> >>)>>
      ELSE <<>>)
  \o (IF Truthy(log.nextSteps)
      THEN <<Section("nextSteps", << <<log.nextSteps>> >>)>> ELSE <<>>)
  \o (IF Len(log.materialsUsed) > 0
      THEN <<Section("materials", MaterialLines(log))>> ELSE <<>>)
  \o <<Section("footer", << <<"Generated on", "now">> >>)>>

\* The render throws when it reads a name of a relation that is null.
RenderThrows(dir) == "project" \notin dir \/ "teamLeader" \notin dir

\* What is written to the document: all of it, or what precedes the throw.
Render(log, dir) ==
  <<Section("title", << <<"Daily Work Log">> >>),
    Section("header", HeaderLines(log, dir))>>
  \o (IF RenderThrows(dir) THEN <<>> ELSE BodySections(log))

PdfHeaders == {"Content-Type: application/pdf", "Content-Disposition: attachment"}

\* exportLogToPdf for the populated log: the lookup, the access check (which
\* reads log.teamLeader._id for a requester who is not a manager), the
\* headers and the pipe, the render, and the catch block of a throw.
exportLogToPdf(db, nid, u, id, dir) ==
  IF findById(db, id) = NoId
  THEN Answer(db, nid, Reply("export", u, id, 404, "Log not found"))
  ELSE IF Role(u) # "Manager" /\ "teamLeader" \notin dir
  THEN Answer(db, nid, Reply("export", u, id, 500,
                             "Cannot read properties of null"))
  ELSE IF ViewForbidden(Role(u), db[id].teamLeader, u)
  THEN Answer(db, nid, Reply("export", u, id, 403,
                              "You are not authorized to export this log"))
  ELSE IF RenderThrows(dir)
  THEN Answer(db, nid, [Reply("export", u, id, 500,
                              "Cannot read properties of null")
                        EXCEPT !.headers = PdfHeaders,
                               !.doc = Render(db[id], dir)])
  ELSE Answer(db, nid, [Reply("export", u, id, 200, "pdf")
                        EXCEPT !.out = <<id>>,
                               !.headers = PdfHeaders,
                               !.doc = Render(db[id], dir)])

\* Query strings of getAllLogs: any teamLeader filter, with at most one of
\* the other filters besides.
Queries ==
  {q \in [startDate : {Absent, "2024-03-02"}, endDate : {Absent, "2024-03-01"},
          project : {Absent, "P1"}, status : {Absent, "draft"},
          teamLeader : {Absent} \cup Leaders] :
     Cardinality({f \in {"startDate", "endDate", "project", "status"} :
                    q[f] # Absent}) <= 1}

\* getAllLogs keeping a team leader filter the query supplies.
FilterTeamLeaderUnlessAsked(role, u, query) ==
  IF role = "Team Leader" /\ query.teamLeader = Absent THEN u
  ELSE query.teamLeader

\* The filter object getAllLogs builds: the team leader filter is the
\* requester for the Team Leader role, whatever the query asks for.
FilterTeamLeader(role, u, query) ==
  IF role = "Team Leader" THEN u ELSE query.teamLeader

Matches(doc, query, leader) ==
  /\ query.startDate # Absent => doc.date >= ParseDate(query.startDate)
  /\ query.endDate # Absent => doc.date <= ParseDate(query.endDate)
  /\ query.project # Absent => doc.project = query.project
  /\ query.status # Absent => doc.status = query.status
  /\ leader # Absent => doc.teamLeader = leader

\* .sort({date: -1}): latest date first, documents of one date in the order
\* they were inserted.
RECURSIVE SortByDateDesc(_, _)
SortByDateDesc(db, ids) ==
  IF ids = {} THEN <<>>
  ELSE LET first == CHOOSE i \in ids :
                      \A j \in ids : \/ db[i].date > db[j].date
                                     \/ db[i].date = db[j].date /\ i <= j
       IN <<first>> \o SortByDateDesc(db, ids \ {first})

getAllLogs(db, nid, u, query) ==
  LET leader == FilterTeamLeader(Role(u), u, query)
      found == {i \in Stored(db) : Matches(db[i], query, leader)}
  IN Answer(db, nid, [Reply("list", u, NoId, 200, "logs")
                       EXCEPT !.out = SortByDateDesc(db, found)])

getMyLogs(db, nid, u) ==
  LET found == {i \in Stored(db) : db[i].teamLeader = u}
  IN Answer(db, nid, [Reply("mine", u, NoId, 200, "logs")
                       EXCEPT !.out = SortByDateDesc(db, found)])

(* ------------------------------ uploads ------------------------------- *)

\* file.mimetype as type and subtype: the declared content type of the part.
Mime(type, subtype) == [type |-> type, subtype |-> subtype]

\* file.mimetype.startsWith('image/')
StartsWithImage(mimetype) == mimetype.type = "image"

\* A photo filter that takes every file.
photoFilterOff(file) == TRUE

photoFilter(file) == StartsWithImage(file.mimetype)

allowedMimeTypes ==
  {Mime("application", "pdf"),
   Mime("application", "msword"),
   Mime("application", "vnd.openxmlformats-officedocument.wordprocessingml.document"),
   Mime("application", "vnd.ms-excel"),
   Mime("application", "vnd.openxmlformats-officedocument.spreadsheetml.sheet"),
   Mime("image", "jpeg"),
   Mime("image", "png"),
   Mime("image", "gif")}

documentFilter(file) == file.mimetype \in allowedMimeTypes

\* limits.fileSize of the two multer instances, in bytes.
PhotoFileSize == 5 * 1024 * 1024
DocumentFileSize == 10 * 1024 * 1024

\* multer with a fileFilter and a fileSize limit: the file reaches the
\* handler when the filter takes it and it is no longer than the limit.
uploadPhotos(file) == photoFilter(file) /\ file.size <= PhotoFileSize
uploadDocuments(file) == documentFilter(file) /\ file.size <= DocumentFileSize

\* The handlers behind the two multer instances: a file multer refuses is
\* answered as a client error before the handler runs; a file it passes is
\* appended to the log's photos (documents).
addPhoto(db, nid, u, id, file) ==
  IF ~uploadPhotos(file)
  THEN Answer(db, nid, Reply("photo", u, id, 400, "upload rejected"))
  ELSE IF findById(db, id) = NoId
  THEN Answer(db, nid, Reply("photo", u, id, 404, "Log not found"))
  ELSE Answer(Put(db, id, [db[id] EXCEPT !.photos =
                             Append(@, [originalName |-> file.originalname])]),
              nid, Reply("photo", u, id, 200, "uploaded"))

addDocument(db, nid, u, id, file) ==
  IF ~uploadDocuments(file)
  THEN Answer(db, nid, Reply("document", u, id, 400, "upload rejected"))
  ELSE IF findById(db, id) = NoId
  THEN Answer(db, nid, Reply("document", u, id, 404, "Log not found"))
  ELSE Answer(Put(db, id, [db[id] EXCEPT !.documents =
                             Append(@, [originalName |-> file.originalname,
                                        type |-> "other"])]),
              nid, Reply("document", u, id, 200, "uploaded"))

(* ------------------------- one call at a time ------------------------- *)

Ids == 1..MaxLogs

\* A handler run from its request to its answer with nothing in between.
Call(r) ==
  /\ r.nextId <= MaxLogs + 1
  /\ logs' = r.logs
  /\ nextId' = r.nextId
  /\ resp' = r.resp
  /\ UNCHANGED reqs

\* Request bodies of createLog: every date and project with nothing else, and
\* for project P1 on either day one of status and teamLeader besides.
CreateBodies ==
  {b \in [date : DateInputs \cup {Absent}, project : Projects,
          workDescription : {"formwork"},
          status : StatusEnum \cup {Absent}, teamLeader : {Absent, "L2"}] :
     \/ b.status = Absent /\ b.teamLeader = Absent
     \/ /\ b.project = "P1"
        /\ b.date \in {"2024-03-01", "2024-03-02"}
        /\ b.status = Absent \/ b.teamLeader = Absent}

\* Request bodies of updateLog: any of date and project, or status alone, or
\* teamLeader alone, or nothing.
UpdateBodies ==
  {b \in [date : {Absent, "2024-03-01", "2024-03-02"},
          project : Projects \cup {Absent},
          status : StatusEnum \cup {Absent}, teamLeader : {Absent, "L2"}] :
     \/ b.status = Absent /\ b.teamLeader = Absent
     \/ b.date = Absent /\ b.project = Absent /\ b.teamLeader = Absent
     \/ b.date = Absent /\ b.project = Absent /\ b.status = Absent}

\* The requesters of the calls of Spec.
Callers == Leaders \cup {"M1"}

EmptyBody == [date |-> Absent, project |-> Absent, status |-> Absent,
              teamLeader |-> Absent]

CreateLog ==
  \/ \E u \in Leaders, body \in CreateBodies :
       Call(createLog(logs, nextId, u, body, TRUE))
  \/ \E u \in Leaders : Call(createLog(logs, nextId, u, EmptyBody, FALSE))

UpdateLog ==
  \/ \E u \in Callers, id \in Ids, body \in UpdateBodies :
       Call(updateLog(logs, nextId, u, id, body, TRUE))
  \/ \E u \in Callers, id \in Ids :
       Call(updateLog(logs, nextId, u, id, EmptyBody, FALSE))

SubmitLog == \E u \in Callers, id \in Ids : Call(submitLog(logs, nextId, u, id))

ApproveLog == \E u \in Callers \cap Managers, id \in Ids, now \in Times :
                Call(approveLog(logs, nextId, u, id, now))

DeleteLog == \E u \in Callers, id \in Ids : Call(deleteLog(logs, nextId, u, id))

GetLogById == \E u \in Callers, id \in Ids : Call(getLogById(logs, nextId, u, id))

ExportLogToPdf == \E u \in Callers, id \in Ids, dir \in SUBSET Relations :
                    Call(exportLogToPdf(logs, nextId, u, id, dir))

GetAllLogs == \E u \in Callers, query \in Queries :
                Call(getAllLogs(logs, nextId, u, query))

GetMyLogs == \E u \in Callers : Call(getMyLogs(logs, nextId, u))


\* A request slot with no handler running in it.
IdleReq == [pc |-> "idle", op |-> "none", user |-> None, id |-> NoId,
            body |-> EmptyBody, seenStatus |-> None, now |-> 0]

Init ==
  /\ logs = <<>>
  /\ nextId = 1
  /\ resp = NoReply
  /\ reqs = [p \in 1..MaxReqs |-> IdleReq]

Next ==
  \/ CreateLog
  \/ UpdateLog
  \/ SubmitLog
  \/ ApproveLog
  \/ DeleteLog

Spec == Init /\ [][Next]_vars

(* ------------------ reads between the lifecycle calls ----------------- *)

\* A lifecycle call whose answer is not looked at.
Quiet(r) ==
  /\ r.nextId <= MaxLogs + 1
  /\ logs' = r.logs
  /\ nextId' = r.nextId
  /\ resp' = NoReply
  /\ UNCHANGED reqs

Lifecycle ==
  \/ \E u \in Leaders, body \in CreateBodies :
       Quiet(createLog(logs, nextId, u, body, TRUE))
  \/ \E u \in Callers, id \in Ids, body \in UpdateBodies :
       Quiet(updateLog(logs, nextId, u, id, body, TRUE))
  \/ \E u \in Callers, id \in Ids : Quiet(submitLog(logs, nextId, u, id))
  \/ \E u \in Callers \cap Managers, id \in Ids, now \in Times :
       Quiet(approveLog(logs, nextId, u, id, now))
  \/ \E u \in Callers, id \in Ids : Quiet(deleteLog(logs, nextId, u, id))

\* The reads; every relation of an exported log resolves.
NextRead ==
  \/ Lifecycle
  \/ GetLogById
  \/ \E u \in Callers, id \in Ids :
       Call(exportLogToPdf(logs, nextId, u, id, Relations))
  \/ GetAllLogs
  \/ GetMyLogs

SpecRead == Init /\ [][NextRead]_vars


(* ------------------------- uploads to stored logs --------------------- *)

Files ==
  [mimetype : {Mime("image", "png"), Mime("image", "webp"),
               Mime("application", "pdf"), Mime("application", "zip"),
               Mime("text", "plain")},
   size : {PhotoFileSize, PhotoFileSize + 1,
           DocumentFileSize, DocumentFileSize + 1},
   originalname : {"upload"}]

\* The requester and the create requests of SpecUpload and SpecContent.
ContentLeaders == {"L1"}

ContentCreateBodies ==
  [date : {"2024-03-01", "2024-03-02"}, project : {"P1"},
   workDescription : {"formwork"}, weather : {Absent, "sunny"},
   status : {Absent}, teamLeader : {Absent}]

\* No log holds more files than the bound.
Fits(r) ==
  \A id \in DOMAIN r.logs : /\ Len(r.logs[id].photos) <= MaxFiles
                            /\ Len(r.logs[id].documents) <= MaxFiles

AddPhoto ==
  \E u \in ContentLeaders, id \in Ids, file \in Files :
    LET r == addPhoto(logs, nextId, u, id, file) IN Fits(r) /\ Call(r)

AddDocument ==
  \E u \in ContentLeaders, id \in Ids, file \in Files :
    LET r == addDocument(logs, nextId, u, id, file) IN Fits(r) /\ Call(r)

NextUpload ==
  \/ \E u \in ContentLeaders, body \in ContentCreateBodies :
       Quiet(createLog(logs, nextId, u, body, TRUE))
  \/ AddPhoto
  \/ AddDocument

SpecUpload == Init /\ [][NextUpload]_vars

(* --------------------- updates of a log's content --------------------- *)

\* Request bodies of updateLog that carry content: weather (as it is, and
\* padded), the work description, the date, and a teamLeader.
ContentUpdateBodies ==
  [date : {Absent, "2024-03-02"}, project : {Absent}, status : {Absent},
   teamLeader : {Absent, "L2"},
   weather : {Absent, "rain", " rain "},
   workDescription : {Absent, "rebar"}]

SitePhoto == [mimetype |-> Mime("image", "png"), size |-> PhotoFileSize,
              originalname |-> "upload"]

ContentUpdate ==
  \E u \in ContentLeaders, id \in Ids, body \in ContentUpdateBodies :
    Call(updateLog(logs, nextId, u, id, body, TRUE))

NextContent ==
  \/ \E u \in ContentLeaders, body \in ContentCreateBodies :
       Quiet(createLog(logs, nextId, u, body, TRUE))
  \/ \E u \in ContentLeaders, id \in Ids :
       Quiet(submitLog(logs, nextId, u, id))
  \/ \E u \in ContentLeaders, id \in Ids :
       LET r == addPhoto(logs, nextId, u, id, SitePhoto) IN Fits(r) /\ Quiet(r)
  \/ \E u \in ContentLeaders, id \in Ids :
       LET r == addDocument(logs, nextId, u, id, SitePhoto)
       IN Fits(r) /\ Quiet(r)
  \/ ContentUpdate

SpecContent == Init /\ [][NextContent]_vars

(* ------------------------------ reports ------------------------------- *)

Cement == [name |-> "cement", quantity |-> 2, unit |-> "bag", notes |-> Absent]
Sand == [name |-> "sand", quantity |-> 0, unit |-> "t", notes |-> "washed"]

\* A create request with nothing optional.
BareBody == [date |-> "2024-03-01", project |-> "P1", status |-> Absent,
             teamLeader |-> Absent, workDescription |-> "formwork",
             employees |-> <<>>, weather |-> Absent,
             issuesEncountered |-> Absent, nextSteps |-> Absent,
             materialsUsed |-> <<>>]

\* Request bodies of createLog for the reports: nothing optional, one optional
\* field, an empty or a blank weather, or everything, on either day.
RenderCreateBodies ==
  {[b EXCEPT !.date = d] :
     d \in {"2024-03-01", "2024-03-02"},
     b \in {BareBody,
            [BareBody EXCEPT !.weather = "sunny"],
            [BareBody EXCEPT !.weather = ""],
            [BareBody EXCEPT !.weather = " "],
            [BareBody EXCEPT !.issuesEncountered = "leak"],
            [BareBody EXCEPT !.nextSteps = "pour"],
            [BareBody EXCEPT !.employees = <<"E1", "E2">>],
            [BareBody EXCEPT !.materialsUsed = <<Cement, Sand>>],
            [BareBody EXCEPT !.weather = "sunny", !.issuesEncountered = "leak",
                             !.nextSteps = "pour", !.employees = <<"E1">>,
                             !.materialsUsed = <<Cement>>]}}

NextRender ==
  \/ \E u \in ContentLeaders, body \in RenderCreateBodies :
       Quiet(createLog(logs, nextId, u, body, TRUE))
  \/ \E u \in ContentLeaders, id \in Ids :
       Quiet(submitLog(logs, nextId, u, id))
  \/ \E u \in Callers \cap Managers, id \in Ids, now \in Times :
       Quiet(approveLog(logs, nextId, u, id, now))
  \/ ExportLogToPdf

SpecRender == Init /\ [][NextRender]_vars

(* ------------------- notification calls that may fail ----------------- *)

\* What an awaited call of the notification controller does: it returns, or
\* its dispatch fails and the await throws into the handler's try block.
Dispatch == {"delivered", "failed"}

\* The handler's catch block after a notification call that threw.
Caught(op, u, id) == Reply(op, u, id, 500, "notification failed")

\* createLog with the outcome of its duplicate warning call: the call is
\* awaited before the 400 is sent.
createLogNotified(db, nid, u, body, valid, outcome) ==
  LET r == createLog(db, nid, u, body, valid)
  IN IF r.resp.notif # NoNotification /\ outcome = "failed"
     THEN Answer(r.logs, r.nextId, Caught("create", u, NoId))
     ELSE r

\* approveLog with the outcome of its log approved call: the call is awaited
\* after log.save() and before the 200 is sent.
approveLogNotified(db, nid, u, id, now, outcome) ==
  LET r == approveLog(db, nid, u, id, now)
  IN IF r.resp.notif # NoNotification /\ outcome = "failed"
     THEN Answer(r.logs, r.nextId, Caught("approve", u, id))
     ELSE r

CreateLogNotified ==
  \E u \in ContentLeaders, body \in ContentCreateBodies, outcome \in Dispatch :
    Call(createLogNotified(logs, nextId, u, body, TRUE, outcome))

ApproveLogNotified ==
  \E u \in Callers \cap Managers, id \in Ids, now \in Times, outcome \in Dispatch :
    Call(approveLogNotified(logs, nextId, u, id, now, outcome))

NextNotify ==
  \/ CreateLogNotified
  \/ \E u \in ContentLeaders, id \in Ids : Quiet(submitLog(logs, nextId, u, id))
  \/ ApproveLogNotified

SpecNotify == Init /\ [][NextNotify]_vars

(* --------------------- handlers interleaved at awaits ----------------- *)

Slots == 1..MaxReqs
Free == {p \in Slots : reqs[p].pc = "idle"}
Running(op, pc) == {p \in Slots : reqs[p].op = op /\ reqs[p].pc = pc}

\* The requesters and requests of SpecConc.
ConcLeaders == {"L1"}
ConcManagers == {"M1"}
ConcCallers == ConcLeaders \cup ConcManagers

ConcCreateBodies ==
  [date : {"2024-03-01", "2024-03-02"}, project : {"P1"},
   workDescription : {"formwork"}, status : {Absent}, teamLeader : {Absent}]

ConcUpdateBodies ==
  [date : {Absent, "2024-03-01", "2024-03-02"}, project : {Absent, "P2"},
   status : {Absent}, teamLeader : {Absent}]

\* The first step of a handler, run in the lowest free slot: it answers, or
\* leaves the handler waiting in the slot with what it read.
Begin(op, u, id, body, now, r) ==
  /\ Free # {}
  /\ logs' = r.logs
  /\ nextId' = r.nextId
  /\ IF r.done
     THEN resp' = r.resp /\ UNCHANGED reqs
     ELSE /\ resp' = resp
          /\ reqs' = [reqs EXCEPT ![Min(Free)] =
                        [pc |-> "waiting", op |-> op, user |-> u, id |-> id,
                         body |-> body, seenStatus |-> r.seenStatus,
                         now |-> now]]

\* A later step of the handler in slot p: it answers and frees the slot, or
\* (createLog after its save) waits once more, holding the new id.
Continue(p, r) ==
  /\ r.nextId <= MaxLogs + 1
  /\ logs' = r.logs
  /\ nextId' = r.nextId
  /\ IF r.done
     THEN resp' = r.resp /\ reqs' = [reqs EXCEPT ![p] = IdleReq]
     ELSE resp' = resp /\ reqs' = [reqs EXCEPT ![p].pc = "saved",
                                               ![p].id = r.seenId]

\* No more creates start than ids are left for them.
CreateRoom == nextId + Cardinality(Running("create", "waiting")) <= MaxLogs

CreateBegin ==
  \E u \in ConcLeaders, body \in ConcCreateBodies :
    CreateRoom /\ Begin("create", u, NoId, body, 0,
                        createCheck(logs, nextId, u, body, TRUE))

CreateSave ==
  \E p \in Running("create", "waiting") :
    Continue(p, createSave(logs, nextId, reqs[p].user, reqs[p].body))

CreateRespond ==
  \E p \in Running("create", "saved") :
    Continue(p, createRespond(logs, nextId, reqs[p].user, reqs[p].id))

UpdateBegin ==
  \E u \in ConcLeaders, id \in Ids, body \in ConcUpdateBodies :
    Begin("update", u, id, body, 0, updateRead(logs, nextId, u, id, body, TRUE))

UpdateWrite ==
  \E p \in Running("update", "waiting") :
    Continue(p, updateWrite(logs, nextId, reqs[p].user, reqs[p].id,
                            reqs[p].body, reqs[p].seenStatus))

DeleteBegin ==
  \E u \in ConcCallers, id \in Ids :
    Begin("delete", u, id, EmptyBody, 0, deleteRead(logs, nextId, u, id))

DeleteWrite ==
  \E p \in Running("delete", "waiting") :
    Continue(p, deleteWrite(logs, nextId, reqs[p].user, reqs[p].id))

\* The handlers that write or free a key of the unique index.
NextConc ==
  \/ CreateBegin
  \/ CreateSave
  \/ CreateRespond
  \/ UpdateBegin
  \/ UpdateWrite
  \/ DeleteBegin
  \/ DeleteWrite

SpecConc == Init /\ [][NextConc]_vars

(* ------------- update, submit and approve interleaved at awaits ------- *)

\* An update request that supplies the weather and no status.
WeatherBody == [date |-> Absent, project |-> Absent, status |-> Absent,
                teamLeader |-> Absent, weather |-> "rain"]

StatusUpdateBegin ==
  \E u \in ConcLeaders, id \in Ids :
    Begin("update", u, id, WeatherBody, 0,
          updateRead(logs, nextId, u, id, WeatherBody, TRUE))

SubmitBegin ==
  \E u \in ConcLeaders, id \in Ids :
    Begin("submit", u, id, EmptyBody, 0, submitRead(logs, nextId, u, id))

SubmitSave ==
  \E p \in Running("submit", "waiting") :
    Continue(p, submitSave(logs, nextId, reqs[p].user, reqs[p].id))

ApproveBegin ==
  \E u \in Managers, id \in Ids :
    Begin("approve", u, id, EmptyBody, Min(Times),
          approveRead(logs, nextId, u, id))

ApproveSave ==
  \E p \in Running("approve", "waiting") :
    Continue(p, approveSave(logs, nextId, reqs[p].user, reqs[p].id,
                            reqs[p].now))

\* One log is created, by a create that runs alone; the handlers that read
\* and then write its status interleave.
NextStatus ==
  \/ \E u \in ConcLeaders :
       Free = Slots /\ Quiet(createLog(logs, nextId, u, BareBody, TRUE))
  \/ StatusUpdateBegin
  \/ UpdateWrite
  \/ SubmitBegin
  \/ SubmitSave
  \/ ApproveBegin
  \/ ApproveSave

SpecStatus == Init /\ [][NextStatus]_vars

(* ------------------------------ the claims ---------------------------- *)

\* The error kinds of the taxonomy, read off the status code and the body.
Kind(r) ==
  CASE r.code \in {200, 201} -> "ok"
    [] r.code = 404 -> "not_found"
    [] r.code = 403 -> "forbidden"
    [] r.code = 500 -> "internal"
    [] r.code = 400 /\ r.msg = "validation errors" -> "validation"
    [] r.code = 400 /\ r.existing # NoId -> "duplicate"
    [] OTHER -> "conflict"

\* The step is a call of op on a stored log.
CallOn(op) == resp'.op = op /\ resp'.id \in DOMAIN logs

\* C1: the status of an existing log changes only from draft to submitted,
\* by submit, or from submitted to approved, by approve.
C1_StatusOnlyBySubmitAndApprove ==
  [][\A id \in DOMAIN logs \cap DOMAIN logs' :
       logs'[id].status # logs[id].status =>
         \/ /\ logs[id].status = "draft"
            /\ logs'[id].status = "submitted"
            /\ resp'.op = "submit" /\ resp'.id = id
         \/ /\ logs[id].status = "submitted"
            /\ logs'[id].status = "approved"
            /\ resp'.op = "approve" /\ resp'.id = id]_vars

C3_ApproveIffSubmitted ==
  [][CallOn("approve") =>
       IF logs[resp'.id].status = "submitted"
       THEN /\ resp'.code = 200
            /\ resp'.at \in Times
            /\ logs' = [logs EXCEPT ![resp'.id] =
                          [@ EXCEPT !.status = "approved",
                                    !.approvedBy = resp'.user,
                                    !.approvedAt = resp'.at]]
       ELSE /\ Kind(resp') = "conflict"
            /\ logs' = logs]_vars

\* A manager approved a log at the second clock reading.
C3_Witness ==
  /\ resp.op = "approve" /\ resp.code = 200 /\ resp.at = 2
  /\ resp.id \in DOMAIN logs
  /\ logs[resp.id].status = "approved"
  /\ logs[resp.id].approvedBy = resp.user
  /\ logs[resp.id].approvedAt = 2

\* C4: a successful create stores the log with status draft and teamLeader
\* the requester, whatever the body says.
C4_CreateStoresDraftOfRequester ==
  (resp.op = "create" /\ resp.code = 201) =>
     /\ resp.id \in DOMAIN logs
     /\ logs[resp.id].status = "draft"
     /\ logs[resp.id].teamLeader = resp.user

\* The stored logs holding the triple a create request names.
SameTriple(u, body) ==
  {i \in DOMAIN logs : /\ logs[i].date = ParseDate(body.date)
                       /\ logs[i].teamLeader = u
                       /\ logs[i].project = body.project}

\* C5: no two stored logs share the triple (date, teamLeader, project),
\* whatever creates, updates and removes ran or are running.
C5_TripleUnique ==
  \A i \in DOMAIN logs : \A j \in DOMAIN logs :
    (/\ logs[i].date = logs[j].date
     /\ logs[i].teamLeader = logs[j].teamLeader
     /\ logs[i].project = logs[j].project) => i = j

\* Two logs are stored and the index has just rejected the save of a create
\* that had passed its pre-check.
C5_Witness ==
  /\ Cardinality(DOMAIN logs) = 2
  /\ resp.op = "create" /\ resp.code = 500
  /\ resp.msg = "E11000 duplicate key error"

\* C6: a create naming the (date, requester, project) of a stored log is
\* answered with the duplicate error carrying that log's id, emits the
\* duplicate warning to the requester with the request's date and project,
\* and adds or changes no log.
C6_DuplicateCreateRejected ==
  /\ \A u \in Leaders, body \in CreateBodies :
       \A i \in SameTriple(u, body) :
         LET r == createLog(logs, nextId, u, body, TRUE)
         IN /\ Kind(r.resp) = "duplicate"
            /\ r.resp.existing = i
            /\ r.resp.notif = [type |-> "duplicate_warning", user |-> u,
                               date |-> body.date, project |-> body.project,
                               log |-> NoId]
            /\ r.logs = logs
  /\ (resp.op = "create" /\ Kind(resp) = "duplicate") =>
       /\ resp.existing \in DOMAIN logs
       /\ logs[resp.existing].teamLeader = resp.user
       /\ logs[resp.existing].date = ParseDate(resp.notif.date)
       /\ logs[resp.existing].project = resp.notif.project
       /\ resp.notif.user = resp.user

\* A create spelling the stored date differently was rejected as a duplicate
\* while the other team leader holds a log of the same date and project.
C6_Witness ==
  /\ resp.op = "create" /\ Kind(resp) = "duplicate"
  /\ resp.notif.date = "2024-03-01T00:00:00.000Z"
  /\ resp.existing = 2
  /\ 1 \in DOMAIN logs
  /\ logs[1].date = 1 /\ logs[1].project = resp.notif.project
  /\ logs[1].teamLeader # resp.user

\* C7: a create that passed its pre-check and then finds its triple taken
\* when it saves stores nothing and is answered with the duplicate error of
\* the pre-check, carrying the id of the log that holds the triple.
C7_RaceLoserGetsDuplicateError ==
  [][\A p \in Slots :
       (/\ reqs[p].op = "create" /\ reqs[p].pc = "waiting"
        /\ reqs'[p].pc # "waiting"
        /\ SameTriple(reqs[p].user, reqs[p].body) # {}) =>
          /\ logs' = logs
          /\ Kind(resp') = "duplicate"
          /\ resp'.existing \in SameTriple(reqs[p].user, reqs[p].body)]_vars

\* C8 as claimed: an update of an approved log that passes validation is
\* answered with a conflict, whoever asks.
C8_UpdateApprovedConflictForAll ==
  [][(CallOn("update") /\ logs[resp'.id].status = "approved"
      /\ Kind(resp') # "validation") =>
       Kind(resp') = "conflict" /\ logs' = logs]_vars

\* C8 amended: an update of an approved log never succeeds and changes
\* nothing; it is answered with a validation error when the request fails
\* validation, else forbidden when the requester is not the owning team
\* leader, else a conflict.
C8_UpdateApprovedRejected ==
  [][(CallOn("update") /\ logs[resp'.id].status = "approved") =>
       /\ logs' = logs
       /\ \/ Kind(resp') = "validation"
          \/ /\ logs[resp'.id].teamLeader # resp'.user
             /\ Kind(resp') = "forbidden"
          \/ /\ logs[resp'.id].teamLeader = resp'.user
             /\ Kind(resp') = "conflict"
             /\ resp'.msg = "Cannot update an approved log"]_vars

\* A manager's update of an approved log was answered forbidden.
C8_Witness ==
  /\ resp.op = "update" /\ resp.id \in DOMAIN logs
  /\ logs[resp.id].status = "approved"
  /\ logs[resp.id].approvedBy = resp.user
  /\ Kind(resp) = "forbidden"

\* C9: remove deletes a stored log exactly when the requester is a manager,
\* or is the owner and the log is not approved; anyone else gets forbidden,
\* the owner of an approved log a conflict, and then the log stays as it is.
C9_RemoveIffManagerOrOwnerOfUnapproved ==
  [][CallOn("delete") =>
       LET id == resp'.id
           u == resp'.user
           owner == logs[id].teamLeader = u
           manager == Role(u) = "Manager"
       IN IF manager \/ (owner /\ logs[id].status # "approved")
          THEN /\ resp'.code = 200
               /\ DOMAIN logs' = DOMAIN logs \ {id}
               /\ \A j \in DOMAIN logs' : logs'[j] = logs[j]
          ELSE /\ logs' = logs
               /\ IF owner THEN Kind(resp') = "conflict"
                           ELSE Kind(resp') = "forbidden"]_vars

\* The owner's remove of an approved log was answered with a conflict.
C9_Witness ==
  /\ resp.op = "delete" /\ resp.id \in DOMAIN logs
  /\ logs[resp.id].status = "approved"
  /\ logs[resp.id].approvedBy \in Managers
  /\ logs[resp.id].teamLeader = resp.user
  /\ resp.code = 400 /\ resp.msg = "Cannot delete an approved log"

\* The ids a sequence of returned logs holds.
Returned(r) == {r.out[k] : k \in DOMAIN r.out}

\* C10: list, get and export answer a requester who is not a manager with
\* no log of another team leader, whatever teamLeader filter list is given.
C10_NonManagerSeesOwnLogsOnly ==
  (resp.op \in {"list", "get", "export"} /\ Role(resp.user) # "Manager") =>
     \A id \in Returned(resp) :
       id \in DOMAIN logs /\ logs[id].teamLeader = resp.user

\* Team leader L1 got their own log from a list that a query asking for the
\* logs of L2, who holds one, answers so.
C10_Witness ==
  /\ resp.op = "list" /\ resp.user = "L1"
  /\ Returned(resp) # {}
  /\ \E id \in DOMAIN logs : logs[id].teamLeader = "L2"
  /\ resp = getAllLogs(logs, nextId, "L1",
                       [startDate |-> Absent, endDate |-> Absent,
                        project |-> Absent, status |-> Absent,
                        teamLeader |-> "L2"]).resp

\* C11: a successful update by the owner of a log that is not approved
\* changes no field the request does not supply and no other log, and sets
\* date, work description and weather to what the request supplies; an
\* update that supplies only weather changes only weather.
C11_UpdateChangesSuppliedOnly ==
  \A u \in ContentLeaders, id \in DOMAIN logs, body \in ContentUpdateBodies :
    LET r == updateLog(logs, nextId, u, id, body, TRUE)
    IN (/\ logs[id].teamLeader = u
        /\ logs[id].status # "approved"
        /\ r.resp.code = 200) =>
         /\ DOMAIN r.logs = DOMAIN logs
         /\ \A j \in DOMAIN logs \ {id} : r.logs[j] = logs[j]
         /\ \A f \in DOMAIN logs[id] :
              r.logs[id][f] # logs[id][f] => Field(body, f) # Absent
         /\ r.logs[id].teamLeader = logs[id].teamLeader
         /\ body.date # Absent => r.logs[id].date = ParseDate(body.date)
         /\ body.workDescription # Absent =>
              r.logs[id].workDescription = body.workDescription
         /\ body.weather # Absent => r.logs[id].weather \in {"rain"}
         /\ (/\ body.weather # Absent /\ body.date = Absent
             /\ body.workDescription = Absent) =>
              r.logs[id] = [logs[id] EXCEPT !.weather = r.logs[id].weather]

\* The owner's update set the weather of a submitted log that holds a photo
\* and a document, and the log kept its work description and its status.
C11_Witness ==
  /\ resp.op = "update" /\ resp.code = 200 /\ resp.id \in DOMAIN logs
  /\ logs[resp.id].weather = "rain"
  /\ logs[resp.id].workDescription = "formwork"
  /\ logs[resp.id].status = "submitted"
  /\ Len(logs[resp.id].photos) = 1
  /\ Len(logs[resp.id].documents) = 1

\* C12: a notification call that fails does not change the answer: approve
\* of a submitted log answers success with the log approved, and a create
\* naming the triple of a stored log answers the duplicate error with that
\* log's id, whatever the outcome of the notification call.
C12_NotificationFailureKeepsOutcome ==
  [][/\ (CallOn("approve") /\ logs[resp'.id].status = "submitted") =>
          /\ resp'.code = 200
          /\ logs'[resp'.id].status = "approved"
     /\ \A u \in ContentLeaders, body \in ContentCreateBodies, outcome \in Dispatch :
          SameTriple(u, body) # {} =>
            LET r == createLogNotified(logs, nextId, u, body, TRUE, outcome)
            IN /\ Kind(r.resp) = "duplicate"
               /\ r.resp.existing \in SameTriple(u, body)]_vars

\* Uploads the gate is asked about: the content types of the allow-list,
\* other image types, other types, and sizes around the two limits.
GateFiles ==
  [mimetype : allowedMimeTypes \cup
              {Mime("image", "webp"), Mime("IMAGE", "png"),
               Mime("application", "zip"), Mime("application", "x-pdf"),
               Mime("text", "plain")},
   size : {1, 5242880, 5242881, 10485760, 10485761},
   originalname : {"upload"}]

\* PDF, DOC, DOCX, XLS, XLSX, JPEG, PNG, GIF.
DocumentTypes ==
  {[type |-> "application", subtype |-> "pdf"],
   [type |-> "application", subtype |-> "msword"],
   [type |-> "application",
    subtype |-> "vnd.openxmlformats-officedocument.wordprocessingml.document"],
   [type |-> "application", subtype |-> "vnd.ms-excel"],
   [type |-> "application",
    subtype |-> "vnd.openxmlformats-officedocument.spreadsheetml.sheet"],
   [type |-> "image", subtype |-> "jpeg"],
   [type |-> "image", subtype |-> "png"],
   [type |-> "image", subtype |-> "gif"]}

\* C13: a photo upload is accepted exactly when its content type begins with
\* image/ and it is at most 5 MiB, a document upload exactly when its content
\* type is on the allow-list and it is at most 10 MiB; an accepted upload is
\* appended to the log's photos (documents) and a rejected one changes no log.
C13_GateAcceptsIffTypeAndSize ==
  \A id \in DOMAIN logs, file \in GateFiles :
    LET photo == addPhoto(logs, nextId, "L1", id, file)
        document == addDocument(logs, nextId, "L1", id, file)
        photoOk == file.mimetype.type = "image" /\ file.size <= 5242880
        documentOk == file.mimetype \in DocumentTypes /\ file.size <= 10485760
    IN /\ uploadPhotos(file) <=> photoOk
       /\ uploadDocuments(file) <=> documentOk
       /\ photo.resp.code = 200 <=> photoOk
       /\ document.resp.code = 200 <=> documentOk
       /\ IF photoOk
          THEN /\ Len(photo.logs[id].photos) = Len(logs[id].photos) + 1
               /\ photo.logs[id].documents = logs[id].documents
          ELSE photo.logs = logs /\ photo.resp.code = 400
       /\ IF documentOk
          THEN /\ Len(document.logs[id].documents) = Len(logs[id].documents) + 1
               /\ document.logs[id].photos = logs[id].photos
          ELSE document.logs = logs /\ document.resp.code = 400

\* A document upload was rejected for a log that holds a photo and a
\* document from earlier uploads.
C13_Witness ==
  /\ resp.op = "document" /\ resp.code = 400 /\ resp.id \in DOMAIN logs
  /\ Len(logs[resp.id].photos) = 1
  /\ Len(logs[resp.id].documents) = 1

\* The order of the sections of a report.
SectionOrder ==
  <<"title", "header", "employees", "workDescription", "weather",
    "issuesEncountered", "nextSteps", "materials", "footer">>

SectionNames(doc) == [k \in DOMAIN doc |-> doc[k].name]

\* The report of the last call was rendered in full from the stored log.
Exported == resp.op = "export" /\ resp.code = 200 /\ resp.id \in DOMAIN logs

\* The employees section of a report holds the names, or one line saying
\* that none are recorded.
EmployeesShown(doc, log) ==
  \E k \in DOMAIN doc :
    /\ doc[k].name = "employees"
    /\ IF log.employees = <<>>
       THEN doc[k].lines = << <<"No employees recorded for this log">> >>
       ELSE Len(doc[k].lines) = Len(log.employees)

\* C14 as claimed: the sections of a report are those of the fixed order,
\* the optional text sections exactly for the fields the log holds, an empty
\* text included.
C14_SectionsIffFieldSet ==
  Exported =>
    LET log == logs[resp.id]
        Shown(name) ==
          CASE name = "weather" -> log.weather # Absent
            [] name = "issuesEncountered" -> log.issuesEncountered # Absent
            [] name = "nextSteps" -> log.nextSteps # Absent
            [] name = "materials" -> log.materialsUsed # <<>>
            [] OTHER -> TRUE
    IN /\ SectionNames(resp.doc) = SelectSeq(SectionOrder, Shown)
       /\ EmployeesShown(resp.doc, log)

\* C14 amended: the sections of a report are those of the fixed order; title,
\* header, employees (one line saying none are recorded when the log has
\* none), work description and footer always, weather, issues encountered
\* and next steps exactly when the field holds a text that is not empty,
\* materials exactly when materialsUsed is not empty.
C14_SectionsIffFieldNotEmpty ==
  Exported =>
    LET log == logs[resp.id]
        Shown(name) ==
          CASE name = "weather" -> log.weather \notin {Absent, ""}
            [] name = "issuesEncountered" ->
                 log.issuesEncountered \notin {Absent, ""}
            [] name = "nextSteps" -> log.nextSteps \notin {Absent, ""}
            [] name = "materials" -> log.materialsUsed # <<>>
            [] OTHER -> TRUE
    IN /\ SectionNames(resp.doc) = SelectSeq(SectionOrder, Shown)
       /\ EmployeesShown(resp.doc, log)

\* The report of a log with an empty weather text, no employees and no
\* materials has five sections.
C14_Witness ==
  /\ Exported
  /\ logs[resp.id].weather = ""
  /\ logs[resp.id].employees = <<>>
  /\ logs[resp.id].materialsUsed = <<>>
  /\ SectionNames(resp.doc) =
       <<"title", "header", "employees", "workDescription", "footer">>

\* C15: an export that fails because the project or the team leader of the
\* log does not resolve has set no response header of the document and
\* written no section of it when the failure is answered.
C15_RenderFailsClosed ==
  (resp.op = "export" /\ resp.code = 500) =>
     resp.headers = {} /\ resp.doc = <<>>

\* The rank of a status in the order draft, submitted, approved.
Rank(status) ==
  CASE status = "draft" -> 0
    [] status = "submitted" -> 1
    [] OTHER -> 2

\* C16: when update, submit and approve of one log interleave and no update
\* supplies a status, no step moves the status of a stored log backwards.
C16_StatusNeverBackwards ==
  [][\A id \in DOMAIN logs \cap DOMAIN logs' :
       Rank(logs'[id].status) >= Rank(logs[id].status)]_vars

\* C20: when approve requests for one log interleave, an approve answers
\* success only if no other approve of the log has succeeded before it, so
\* that one notification is emitted and approvedBy is the requester of the
\* one success.
C20_OneApproveSucceeds ==
  [][\A p \in Slots :
       (/\ reqs[p].op = "approve" /\ reqs[p].pc = "waiting"
        /\ reqs'[p].pc = "idle"
        /\ resp'.code = 200) =>
          /\ logs[reqs[p].id].status # "approved"
          /\ logs[reqs[p].id].approvedBy = None]_vars

\* C17: a stored log is approved exactly when its approvedBy and approvedAt
\* are set; a log is created with neither, and the two change only in a
\* successful approve of the log.
C17_ApprovedIffStamped ==
  [][/\ \A id \in DOMAIN logs' :
          logs'[id].status = "approved" <=>
            (logs'[id].approvedBy # None /\ logs'[id].approvedAt # 0)
     /\ \A id \in DOMAIN logs \cap DOMAIN logs' :
          (\/ logs'[id].approvedBy # logs[id].approvedBy
           \/ logs'[id].approvedAt # logs[id].approvedAt) =>
            (resp'.op = "approve" /\ resp'.code = 200 /\ resp'.id = id)]_vars

\* The lines of the header of a report.
HeaderOf(doc) ==
  UNION {{doc[k].lines[j] : j \in DOMAIN doc[k].lines} :
           k \in {i \in DOMAIN doc : doc[i].name = "header"}}

\* C18: the header of the report of an approved log holds the approver and
\* the time of approval, that of a draft or submitted log neither.
C18_HeaderShowsApprovalIffApproved ==
  Exported =>
    LET log == logs[resp.id]
    IN IF log.status = "approved"
       THEN /\ log.approvedBy \in Managers
            /\ <<"Approved By", log.approvedBy>> \in HeaderOf(resp.doc)
            /\ <<"Approved On", FormatTime(log.approvedAt)>>
                 \in HeaderOf(resp.doc)
       ELSE \A line \in HeaderOf(resp.doc) :
              line[1] \notin {"Approved By", "Approved On"}

\* C19: no call changes the teamLeader of a stored log, whatever its body.
C19_TeamLeaderNeverChanges ==
  [][\A id \in DOMAIN logs \cap DOMAIN logs' :
       logs'[id].teamLeader = logs[id].teamLeader]_vars

\* The owner L1 updated a log with a body naming L2 as team leader, and the
\* log is still L1's.
C19_Witness ==
  /\ resp.op = "update" /\ resp.code = 200 /\ resp.id \in DOMAIN logs
  /\ logs[resp.id].teamLeader = "L1"
  /\ resp = updateLog(logs, nextId, "L1", resp.id,
                      [EmptyBody EXCEPT !.teamLeader = "L2"], TRUE).resp

\* C21: a create, update, submit, approve or remove call that answers with
\* an error (not found, forbidden, conflict, duplicate, validation or
\* internal failure) leaves the stored logs as they were.
C21_ErrorLeavesLogsUnchanged ==
  [][(/\ resp'.op \in {"create", "update", "submit", "approve", "delete"}
      /\ Kind(resp') # "ok") => logs' = logs]_vars

====
